---- MODULE Spec2Model ----
(***************************************************************************)
(* PointsServiceV2 (api-server/src/services/points-service-v2.ts): the     *)
(* wallet scoring engine.  One calculateWalletScore request fans out to    *)
(* 17 HTTP sources, decodes them, resolves every metric to tier points,    *)
(* sums them and resolves the total to a rank.  Two module-level caches    *)
(* (ranksCache, memeTokensCache) front the registry store.                 *)
(***************************************************************************)
EXTENDS Integers, Sequences, FiniteSets, TLC

(***************************************************************************)
(* JavaScript numbers.  The metrics are whole numbers here; NaN and the    *)
(* absent value (undefined) are two reserved integers outside the range of *)
(* every metric, so that they stay comparable with numbers.  Every         *)
(* relational operator is false when an operand is NaN.                    *)
(***************************************************************************)
NaN == -2147483647

Undefined == -2147483646

IsNaN(x) == x = NaN

GE(x, t) == x # NaN /\ t # NaN /\ x >= t

LE(x, t) == x # NaN /\ t # NaN /\ x <= t

GT(x, t) == x # NaN /\ t # NaN /\ x > t

Plus(x, y) == IF x = NaN \/ y = NaN THEN NaN ELSE x + y

\* `x || 0` on a number or absent field: undefined, NaN and 0 are falsy.
OrZero(x) == IF x = Undefined \/ x = NaN \/ x = 0 THEN 0 ELSE x

\* Number(x): undefined converts to NaN, a number to itself.
ToNumber(x) == IF x = Undefined THEN NaN ELSE x

(***************************************************************************)
(* Strings that carry numbers (total_value) are sequences of characters.   *)
(* parseFloat reads an optional sign and the longest prefix of digits; no  *)
(* digit gives NaN.  (The strings of the model carry no fraction.)         *)
(***************************************************************************)
Digits == <<"0", "1", "2", "3", "4", "5", "6", "7", "8", "9">>

IsDigit(c) == \E d \in 1..10 : Digits[d] = c

DigitValue(c) == (CHOOSE d \in 1..10 : Digits[d] = c) - 1

RECURSIVE ReadDigits(_, _, _)
ReadDigits(s, i, acc) ==
  IF i > Len(s) \/ ~IsDigit(s[i]) THEN acc
  ELSE ReadDigits(s, i + 1, acc * 10 + DigitValue(s[i]))

ParseFloat(s) ==
  LET neg   == Len(s) >= 1 /\ s[1] = "-"
      first == IF neg THEN 2 ELSE 1
  IN  IF first > Len(s) \/ ~IsDigit(s[first]) THEN NaN
      ELSE IF neg THEN 0 - ReadDigits(s, first, 0) ELSE ReadDigits(s, first, 0)

\* `s || '0'` on a string or absent field: the empty sequence stands for
\* both undefined and "", which are both falsy.
OrZeroString(s) == IF s = <<>> THEN <<"0">> ELSE s

(***************************************************************************)
(* Tier Resolver: the threshold tables, one operator per table.  A metric  *)
(* with several sub-components has one operator per sub-component and one  *)
(* for their sum, named after the local variables of the source.           *)
(***************************************************************************)
calculateNftCollectionsPoints(nftCount) ==
  IF GE(nftCount, 10) THEN 400
  ELSE IF GE(nftCount, 5) THEN 250
  ELSE IF GE(nftCount, 3) THEN 150
  ELSE IF GE(nftCount, 1) THEN 50
  ELSE 0

\* calculateTokenHoldingsPoints after the filter/reduce: the isNaN guard and the table.
TokenHoldingsTier(totalUsd) ==
  IF IsNaN(totalUsd) THEN 0
  ELSE IF GE(totalUsd, 10000) THEN 400
  ELSE IF GE(totalUsd, 1000) THEN 300
  ELSE IF GE(totalUsd, 100) THEN 150
  ELSE IF GE(totalUsd, 1) THEN 50
  ELSE 0

\* calculateMemeCoinsPoints after the filter/reduce.
MemeCoinsTier(totalUsd) ==
  IF IsNaN(totalUsd) THEN 0
  ELSE IF GE(totalUsd, 1000) THEN 300
  ELSE IF GE(totalUsd, 500) THEN 200
  ELSE IF GE(totalUsd, 100) THEN 100
  ELSE IF GE(totalUsd, 1) THEN 50
  ELSE 0

calculateWalletAgePoints(ageDays) ==
  IF LE(ageDays, 0) THEN 0
  ELSE IF LE(ageDays, 30) THEN 100
  ELSE IF LE(ageDays, 90) THEN 200
  ELSE IF LE(ageDays, 180) THEN 300
  ELSE IF LE(ageDays, 365) THEN 400
  ELSE IF LE(ageDays, 730) THEN 500
  ELSE 600

calculateTotalTxPoints(txCount) ==
  IF LE(txCount, 0) THEN 0
  ELSE IF LE(txCount, 100) THEN 100
  ELSE IF LE(txCount, 200) THEN 200
  ELSE IF LE(txCount, 400) THEN 300
  ELSE IF LE(txCount, 700) THEN 400
  ELSE IF LE(txCount, 900) THEN 500
  ELSE 600

getBridgeVolumeTierPoints(volumeUsd) ==
  IF GE(volumeUsd, 10000) THEN 500
  ELSE IF GE(volumeUsd, 5000) THEN 400
  ELSE IF GE(volumeUsd, 1000) THEN 250
  ELSE IF GE(volumeUsd, 100) THEN 100
  ELSE IF GE(volumeUsd, 1) THEN 25
  ELSE 0

calculateBridgeInPoints(bridgeInVolumeUsd) == getBridgeVolumeTierPoints(bridgeInVolumeUsd)

calculateBridgeOutPoints(bridgeOutVolumeUsd) == getBridgeVolumeTierPoints(bridgeOutVolumeUsd)

calculateGmPoints(gmCount) ==
  IF GE(gmCount, 150) THEN 400
  ELSE IF GE(gmCount, 50) THEN 250
  ELSE IF GE(gmCount, 10) THEN 150
  ELSE IF GE(gmCount, 1) THEN 50
  ELSE 0

InkyPumpCreatePoints(createdCount) ==
  IF GE(createdCount, 3) THEN 50 ELSE IF GE(createdCount, 1) THEN 25 ELSE 0

InkyPumpVolumePoints(totalVolume) ==
  IF GE(totalVolume, 10000) THEN 350
  ELSE IF GE(totalVolume, 1000) THEN 250
  ELSE IF GE(totalVolume, 100) THEN 150
  ELSE IF GE(totalVolume, 1) THEN 50
  ELSE 0

calculateInkyPumpPoints(createdCount, buyVolumeUsd, sellVolumeUsd) ==
  InkyPumpCreatePoints(createdCount)
    + InkyPumpVolumePoints(Plus(buyVolumeUsd, sellVolumeUsd))

getTydroSupplyTierPoints(supplyUsd) ==
  IF GE(supplyUsd, 50000) THEN 1250
  ELSE IF GE(supplyUsd, 10000) THEN 1000
  ELSE IF GE(supplyUsd, 1000) THEN 600
  ELSE IF GE(supplyUsd, 100) THEN 250
  ELSE IF GE(supplyUsd, 1) THEN 50
  ELSE 0

getTydroBorrowTierPoints(borrowUsd) ==
  IF GE(borrowUsd, 25000) THEN 1250
  ELSE IF GE(borrowUsd, 5000) THEN 1000
  ELSE IF GE(borrowUsd, 500) THEN 600
  ELSE IF GE(borrowUsd, 50) THEN 250
  ELSE IF GE(borrowUsd, 1) THEN 50
  ELSE 0

calculateTydroPoints(supplyUsd, borrowUsd) ==
  getTydroSupplyTierPoints(supplyUsd) + getTydroBorrowTierPoints(borrowUsd)

calculateSwapVolumePoints(swapAmountUsd) ==
  IF GE(swapAmountUsd, 25000) THEN 500
  ELSE IF GE(swapAmountUsd, 10000) THEN 400
  ELSE IF GE(swapAmountUsd, 5000) THEN 250
  ELSE IF GE(swapAmountUsd, 1000) THEN 100
  ELSE IF GE(swapAmountUsd, 1) THEN 25
  ELSE 0

ShelliesPlayPoints(playedGameCount) ==
  IF GE(playedGameCount, 50) THEN 150
  ELSE IF GE(playedGameCount, 10) THEN 75
  ELSE IF GE(playedGameCount, 1) THEN 25
  ELSE 0

ShelliesStakePoints(stakedNftCount) ==
  IF GE(stakedNftCount, 5) THEN 150
  ELSE IF GE(stakedNftCount, 3) THEN 100
  ELSE IF GE(stakedNftCount, 1) THEN 50
  ELSE 0

ShelliesRafflePoints(joinedRaffleCount) ==
  IF GE(joinedRaffleCount, 10) THEN 100
  ELSE IF GE(joinedRaffleCount, 5) THEN 50
  ELSE IF GE(joinedRaffleCount, 1) THEN 25
  ELSE 0

calculateShelliesPoints(playedGameCount, stakedNftCount, joinedRaffleCount) ==
  ShelliesPlayPoints(playedGameCount) + ShelliesStakePoints(stakedNftCount)
    + ShelliesRafflePoints(joinedRaffleCount)

ZnsRegisterPoints(registerCount) ==
  IF GE(registerCount, 3) THEN 200 ELSE IF GE(registerCount, 1) THEN 100 ELSE 0

ZnsDeployPoints(deployCount) ==
  IF GE(deployCount, 3) THEN 50 ELSE IF GE(deployCount, 1) THEN 20 ELSE 0

ZnsGmPoints(saidGmCount) ==
  IF GE(saidGmCount, 10) THEN 50 ELSE IF GE(saidGmCount, 1) THEN 20 ELSE 0

calculateZnsPoints(deployCount, saidGmCount, registerCount) ==
  ZnsRegisterPoints(registerCount) + ZnsDeployPoints(deployCount) + ZnsGmPoints(saidGmCount)

MarvkCardPoints(cardMintedCount) == IF GE(cardMintedCount, 1) THEN 100 ELSE 0

MarvkLockPoints(lockTokenCount) ==
  IF GE(lockTokenCount, 5) THEN 100 ELSE IF GE(lockTokenCount, 1) THEN 50 ELSE 0

MarvkVestPoints(vestTokenCount) ==
  IF GE(vestTokenCount, 5) THEN 100 ELSE IF GE(vestTokenCount, 1) THEN 50 ELSE 0

calculateMarvkPoints(cardMintedCount, lockTokenCount, vestTokenCount) ==
  MarvkCardPoints(cardMintedCount) + MarvkLockPoints(lockTokenCount)
    + MarvkVestPoints(vestTokenCount)

NadoDepositPoints(totalDeposits) ==
  IF GE(totalDeposits, 50000) THEN 1250
  ELSE IF GE(totalDeposits, 10000) THEN 1000
  ELSE IF GE(totalDeposits, 1000) THEN 600
  ELSE IF GE(totalDeposits, 100) THEN 250
  ELSE IF GE(totalDeposits, 1) THEN 50
  ELSE 0

NadoVolumePoints(totalVolume) ==
  IF GE(totalVolume, 25000000) THEN 1250
  ELSE IF GE(totalVolume, 10000000) THEN 1150
  ELSE IF GE(totalVolume, 5000000) THEN 1000
  ELSE IF GE(totalVolume, 1000000) THEN 800
  ELSE IF GE(totalVolume, 500000) THEN 550
  ELSE IF GE(totalVolume, 100000) THEN 300
  ELSE IF GE(totalVolume, 0) THEN 50
  ELSE 0

calculateNadoPoints(totalDeposits, totalVolume) ==
  NadoDepositPoints(totalDeposits) + NadoVolumePoints(totalVolume)

CopinkVolumePoints(totalVolume) ==
  IF GE(totalVolume, 10000) THEN 300
  ELSE IF GE(totalVolume, 5000) THEN 250
  ELSE IF GE(totalVolume, 1000) THEN 150
  ELSE IF GE(totalVolume, 1) THEN 50
  ELSE 0

CopinkSubaccountPoints(subaccountsFound) ==
  IF GE(subaccountsFound, 3) THEN 100 ELSE IF GE(subaccountsFound, 1) THEN 50 ELSE 0

calculateCopinkPoints(subaccountsFound, totalVolume) ==
  CopinkVolumePoints(totalVolume) + CopinkSubaccountPoints(subaccountsFound)

Nft2meCollectionPoints(collectionCreatedCount) ==
  IF GE(collectionCreatedCount, 3) THEN 100
  ELSE IF GE(collectionCreatedCount, 1) THEN 50
  ELSE 0

Nft2meMintPoints(nftMintedCount) ==
  IF GE(nftMintedCount, 100) THEN 200
  ELSE IF GE(nftMintedCount, 10) THEN 100
  ELSE IF GE(nftMintedCount, 1) THEN 50
  ELSE 0

calculateNft2mePoints(collectionCreatedCount, nftMintedCount) ==
  Nft2meCollectionPoints(collectionCreatedCount) + Nft2meMintPoints(nftMintedCount)

NftPlatformPoints(squidCount, netProtocolCount, mintiqueCount) ==
  (IF GT(squidCount, 0) THEN 50 ELSE 0)
    + (IF GT(netProtocolCount, 0) THEN 35 ELSE 0)
    + (IF GT(mintiqueCount, 0) THEN 15 ELSE 0)

NftTradePoints(totalTrades) ==
  IF GE(totalTrades, 10) THEN 300
  ELSE IF GE(totalTrades, 5) THEN 150
  ELSE IF GE(totalTrades, 1) THEN 50
  ELSE 0

calculateNftTradingPoints(squidCount, netProtocolCount, mintiqueCount) ==
  NftPlatformPoints(squidCount, netProtocolCount, mintiqueCount)
    + NftTradePoints(Plus(Plus(squidCount, netProtocolCount), mintiqueCount))

(***************************************************************************)
(* Contract addresses.  An address is its identity and the letter case it  *)
(* is written in; === compares both, toLowerCase rewrites the case.  The   *)
(* identities stand for the 20-byte hex strings of the source.             *)
(***************************************************************************)
Addr(id, cs) == [id |-> id, cs |-> cs]

toLowerCase(a) == [a EXCEPT !.cs = "lower"]

\* The hardcoded addresses of the catch branch of getMemeTokenAddresses.
FallbackMemeTokens ==
  { Addr("ANITA", "lower"), Addr("CAT", "lower"), Addr("PURPLE", "lower"),
    Addr("ANDRU", "lower"), Addr("KRAK", "lower"), Addr("BERT", "lower") }

NFT_CONTRACTS ==
  [ squid |-> Addr("squid", "lower"),
    netProtocol |-> Addr("netProtocol", "lower"),
    mintique |-> Addr("mintique", "lower") ]

ZeroAddress == Addr("0x0", "lower")

(***************************************************************************)
(* The registry store (external): the rows the two queries return.  The    *)
(* store returns a numeric column as a number or as a string.              *)
(***************************************************************************)
Num(n) == [t |-> "number", n |-> n]

Str(s) == [t |-> "string", s |-> s]

NullField == [t |-> "null"]

\* assetsService.getMemeCoins(): the meme-flagged tokens, in any letter case.
StoreMemeCoins ==
  << [address |-> Addr("ANITA", "mixed")], [address |-> Addr("PEPE", "lower")] >>

\* SELECT ... FROM ranks WHERE is_active = true ORDER BY min_points ASC
StoreRanks ==
  << [id |-> 1, name |-> "Bronze", color |-> "brown", logo_url |-> "bronze.png",
      min_points |-> Str(<<"1", "0", "0">>), max_points |-> Str(<<"9", "9", "9">>)],
     [id |-> 2, name |-> "Silver", color |-> "grey", logo_url |-> "silver.png",
      min_points |-> Num(1000), max_points |-> Num(4999)],
     [id |-> 3, name |-> "Gold", color |-> "gold", logo_url |-> "gold.png",
      min_points |-> Str(<<"5", "0", "0", "0">>), max_points |-> NullField] >>

(***************************************************************************)
(* Ranks.                                                                  *)
(***************************************************************************)
\* max_points === null
Null == -2147483645

\* parseInt(s, 10) on a string without fraction: sign, then the digit prefix.
ParseInt(s) ==
  LET neg   == Len(s) >= 1 /\ s[1] = "-"
      first == IF neg THEN 2 ELSE 1
  IN  IF first > Len(s) \/ ~IsDigit(s[first]) THEN NaN
      ELSE IF neg THEN 0 - ReadDigits(s, first, 0) ELSE ReadDigits(s, first, 0)

\* rawRanks.map(r => ({...r, min_points: ..., max_points: ..., created_at: new Date(), ...}))
ParseRank(r, date) ==
  [ id |-> r.id, name |-> r.name, color |-> r.color, logo_url |-> r.logo_url,
    min_points |-> IF r.min_points.t = "string" THEN ParseInt(r.min_points.s)
                   ELSE r.min_points.n,
    max_points |-> IF r.max_points.t = "null" THEN Null
                   ELSE IF r.max_points.t = "string" THEN ParseInt(r.max_points.s)
                   ELSE r.max_points.n,
    created_at |-> date ]

ParseRanks(rawRanks, date) == [i \in 1..Len(rawRanks) |-> ParseRank(rawRanks[i], date)]

\* The `return null` of getRankForPoints.
NoRank == [isNull |-> TRUE]

RECURSIVE RankLoop(_, _, _)
RankLoop(ranks, totalPoints, i) ==
  IF i > Len(ranks) THEN NoRank
  ELSE LET rank  == ranks[i]
           minOk == GE(totalPoints, rank.min_points)
           maxOk == rank.max_points = Null \/ LE(totalPoints, rank.max_points)
       IN  IF minOk /\ maxOk THEN rank ELSE RankLoop(ranks, totalPoints, i + 1)

RECURSIVE RankLoopExclusive(_, _, _)
\* The loop with an exclusive upper bound (totalPoints < rank.max_points).
RankLoopExclusive(ranks, totalPoints, i) ==
  IF i > Len(ranks) THEN NoRank
  ELSE LET rank  == ranks[i]
           minOk == GE(totalPoints, rank.min_points)
           maxOk == rank.max_points = Null
                      \/ (LE(totalPoints, rank.max_points) /\ totalPoints # rank.max_points)
       IN  IF minOk /\ maxOk THEN rank ELSE RankLoopExclusive(ranks, totalPoints, i + 1)

getRankForPointsExclusive(ranks, totalPoints) == RankLoopExclusive(ranks, totalPoints, 1)

getRankForPoints(ranks, totalPoints) == RankLoop(ranks, totalPoints, 1)

\* rank ? { name, color, logo_url } : null
ResponseRank(rank) ==
  IF rank = NoRank THEN NoRank
  ELSE [name |-> rank.name, color |-> rank.color, logo_url |-> rank.logo_url]

(***************************************************************************)
(* The 17 sources of one request, in the order of the Promise.all array,   *)
(* and what each may answer.  A response is                                *)
(*   kind "ok"       : HTTP 200 and a JSON object (body)                   *)
(*   kind "nullbody" : HTTP 200 and the JSON value null                    *)
(*   kind "badjson"  : HTTP 200 and a body json() cannot decode            *)
(*   kind "http500"  : a non-success status                                *)
(*   kind "reject"   : the fetch promise rejects (transport failure)       *)
(***************************************************************************)
SourceOrder ==
  << "walletStats", "bridge", "swap", "tydro", "gm", "inkyPumpCreated",
     "inkyPumpBuy", "inkyPumpSell", "shelliesRaffles", "shelliesPayToPlay",
     "shelliesStaking", "zns", "nft2me", "nftTrading", "marvk", "nado", "copink" >>

Sources == {SourceOrder[i] : i \in 1..Len(SourceOrder)}

Primary == "walletStats"

FaultKinds == {"http500", "reject", "badjson", "nullbody"}

\* Upper bounds of the inputs: the data levels of a source's body, and the
\* number of sources other than the primary one that do not answer "ok".
MaxLevel == 2

MaxFaults == 1

Levels == 0..MaxLevel

\* The magnitudes of level l >= 1: 150, 1500, 15000, ... and 3, 7, 11, ...
Amount(l) == 15 * (10 ^ l)

Count(l) == 4 * l - 1

RECURSIVE IntToString(_)
IntToString(n) ==
  IF n < 10 THEN <<Digits[n + 1]>>
  ELSE Append(IntToString(n \div 10), Digits[(n % 10) + 1])

\* A source's JSON object at data level l; level 0 is the object {} (every
\* field absent; an absent array or string is the empty sequence).
Body(s, l) ==
  CASE s = "walletStats" ->
         [ nftCollections |-> IF l = 0 THEN <<>>
              ELSE << [count |-> Count(l) - 1], [count |-> Undefined], [count |-> 1] >>,
           tokenHoldings |-> IF l = 0 THEN <<>>
              ELSE << [address |-> Addr("USDC", "mixed"), usdValue |-> Amount(l)],
                      [address |-> Addr("ANITA", "mixed"), usdValue |-> Amount(l) \div 3],
                      [address |-> Addr("PEPE", "lower"), usdValue |-> 40],
                      [address |-> Addr("CAT", "lower"), usdValue |-> 60],
                      [address |-> Addr("DUST", "lower"), usdValue |-> Undefined] >>,
           balanceUsd |-> IF l = 0 THEN Undefined ELSE 6 * Amount(l),
           ageDays |-> IF l = 0 THEN Undefined ELSE 200 * l,
           totalTxns |-> IF l = 0 THEN Undefined ELSE 150 * l ]
    [] s = "bridge" ->
         [ bridgedInUsd |-> IF l = 0 THEN Undefined ELSE Amount(l),
           bridgedInCount |-> IF l = 0 THEN Undefined ELSE Count(l),
           bridgedOutUsd |-> IF l = 0 THEN Undefined ELSE Amount(l) \div 2,
           bridgedOutCount |-> IF l = 0 THEN Undefined ELSE l ]
    [] s = "swap" ->
         [ totalUsd |-> IF l = 0 THEN Undefined ELSE 7 * Amount(l),
           txCount |-> IF l = 0 THEN Undefined ELSE Count(l) ]
    [] s = "tydro" ->
         [ currentSupplyUsd |-> IF l = 0 THEN Undefined ELSE Amount(l),
           currentBorrowUsd |-> IF l = 0 THEN Undefined ELSE Amount(l) \div 3,
           depositCount |-> IF l = 0 THEN Undefined ELSE Count(l),
           borrowCount |-> IF l = 0 THEN Undefined ELSE l ]
    [] s \in {"gm", "inkyPumpCreated", "shelliesRaffles", "shelliesPayToPlay",
              "shelliesStaking"} ->
         [ total_count |-> IF l = 0 THEN Undefined ELSE Count(l),
           total_value |-> <<>> ]
    [] s = "inkyPumpBuy" ->
         [ total_count |-> IF l = 0 THEN Undefined ELSE Count(l),
           total_value |-> IF l = 0 THEN <<>> ELSE IntToString(Amount(l)) ]
    [] s = "inkyPumpSell" ->
         [ total_count |-> IF l = 0 THEN Undefined ELSE l,
           total_value |-> IF l = 0 THEN <<>>
                           ELSE IF l = 1 THEN <<"n", "/", "a">>
                           ELSE IntToString(Amount(l) \div 2) ]
    [] s = "zns" ->
         [ total_count |-> IF l = 0 THEN Undefined ELSE 3 * l,
           deploy_count |-> IF l = 0 THEN Undefined ELSE l,
           say_gm_count |-> IF l = 0 THEN Undefined ELSE Count(l),
           register_domain_count |-> IF l = 0 THEN Undefined ELSE l ]
    [] s = "nft2me" ->
         [ collectionsCreated |-> IF l = 0 THEN Undefined ELSE l,
           nftsMinted |-> IF l = 0 THEN Undefined ELSE Count(l),
           totalTransactions |-> IF l = 0 THEN Undefined ELSE Count(l) + l ]
    [] s = "nftTrading" ->
         [ total_count |-> IF l = 0 THEN Undefined ELSE Count(l) + 3,
           by_contract |-> IF l = 0 THEN <<>>
              ELSE << [contract_address |-> Addr("other", "lower"), count |-> 1],
                      [contract_address |-> Addr("squid", "lower"), count |-> Count(l)],
                      [contract_address |-> Addr("netProtocol", "mixed"), count |-> 2] >> ]
    [] s = "marvk" ->
         [ lockTokenCount |-> IF l = 0 THEN Undefined ELSE Count(l),
           vestTokenCount |-> IF l = 0 THEN Undefined ELSE l,
           cardMintedCount |-> IF l = 0 THEN Undefined ELSE 1,
           totalTransactions |-> IF l = 0 THEN Undefined ELSE Count(l) + l + 1 ]
    [] s = "nado" ->
         [ totalDeposits |-> IF l = 0 THEN Undefined ELSE Amount(l),
           totalTransactions |-> IF l = 0 THEN Undefined ELSE Count(l),
           nadoVolumeUSD |-> IF l = 0 THEN Undefined ELSE 1000 * Amount(l) ]
    [] s = "copink" ->
         [ totalVolume |-> IF l = 0 THEN Undefined ELSE Amount(l),
           subaccountsFound |-> IF l = 0 THEN Undefined ELSE l ]

Response(s, kind, l) == [kind |-> kind, body |-> Body(s, IF kind = "ok" THEN l ELSE 0)]

RECURSIVE FaultSets(_)
\* The sets of at most n sources other than the primary one.
FaultSets(n) ==
  IF n = 0 THEN {{}}
  ELSE FaultSets(n - 1)
         \cup {G \cup {s} : G \in FaultSets(n - 1), s \in Sources \ {Primary}}

\* The answers one request may get: the primary source answers with one of
\* primaryKinds, the sources of F with the fault k[s], every other source
\* with its body of data level l.
Scenario(l, primaryKind, F, k) ==
  [s \in Sources |->
     IF s = Primary THEN Response(s, primaryKind, l)
     ELSE IF s \in F THEN Response(s, k[s], 0)
     ELSE Response(s, "ok", l)]

\* Response.ok
ResOk(r) == r.kind # "http500"

(***************************************************************************)
(* Decoding (lines 477-495): `res.ok ? await res.json() : null` for each   *)
(* source in order, then the check of walletStats.  json() rejects on a    *)
(* body it cannot decode.                                                  *)
(***************************************************************************)
NullData == [isNull |-> TRUE]

DecodeOne(r) ==
  IF ~ResOk(r) \/ r.kind = "nullbody" THEN NullData
  ELSE [isNull |-> FALSE, body |-> r.body]

\* The sources whose json() throws.
JsonThrows(responses) == {s \in Sources : responses[s].kind = "badjson"}

\* Decode without the check of line 495.
DecodeWithoutStatsCheck(responses) ==
  IF JsonThrows(responses) # {} THEN [error |-> "SyntaxError"]
  ELSE [error |-> "none", data |-> [s \in Sources |-> DecodeOne(responses[s])]]

\* "ok" and the decoded payloads, or the error thrown.
Decode(responses) ==
  IF JsonThrows(responses) # {} THEN [error |-> "SyntaxError"]
  ELSE IF DecodeOne(responses[Primary]).isNull
       THEN [error |-> "Failed to fetch wallet stats"]
  ELSE [error |-> "none", data |-> [s \in Sources |-> DecodeOne(responses[s])]]

\* d?.f : undefined when d is null.
Field(d, f) == IF d.isNull THEN Undefined ELSE d.body[f]

\* d?.f for an array or string field: the empty sequence when d is null.
SeqField(d, f) == IF d.isNull THEN <<>> ELSE d.body[f]

(***************************************************************************)
(* State.                                                                  *)
(***************************************************************************)
VARIABLES
  now,              \* Date.now(), in milliseconds
  ticks,            \* how many times the clock has advanced (bounded)
  ranksCache,       \* let ranksCache: RanksCache | null
  memeTokensCache,  \* let memeTokensCache: MemeTokensCache | null
  rget,             \* per caller: its getCachedRanks() invocation
  mget,             \* per caller: its getMemeTokenAddresses() invocation
  pc,               \* the calculateWalletScore request: where it stands
  net,              \* what each of its 17 fetches answers
  nFulfilled,       \* Promise.all: how many of its fetches have fulfilled
  rejected,         \* the fetches that have rejected
  data,             \* walletStats, bridgeData, ... (the decoded payloads)
  breakdown,        \* const breakdown
  totalPoints,      \* let totalPoints
  memePoints,       \* const memePoints (line 516), live across the next await
  memeTokensSeen,   \* the memeTokens sets the request's lookups resolved to
  result,           \* what the request returned or threw
  tierCall,         \* the last direct application of a resolver (SpecTier)
  history           \* the calls so far: the previous one, and the caches at the start of this one

vars ==
  << now, ticks, ranksCache, memeTokensCache, rget, mget, pc, net, nFulfilled,
     rejected, data, breakdown, totalPoints, memePoints, memeTokensSeen, result,
     tierCall, history >>

cacheVars == << now, ticks, ranksCache, memeTokensCache, rget, mget >>

requestVars ==
  << pc, net, nFulfilled, rejected, data, breakdown, totalPoints, memePoints,
     memeTokensSeen, result >>

RANKS_CACHE_TTL == 60 * 1000

MEME_TOKENS_CACHE_TTL == 5 * 60 * 1000

\* The callers of the cache getters: the modelled request ("score"), and
\* other requests running at the same time, seen only through their cache
\* lookups.
Others == {"other1", "other2"}

Callers == {"score"} \cup Others

NullCache == [isNull |-> TRUE]

\* A getter invocation: st is "idle" (none), "querying" (awaiting the store)
\* or "returned"; ret is the resolved value.  at, slot, queried and failed
\* record the clock and cache slot read by the freshness test, and whether
\* the invocation queried the store and whether that query failed.
IdleGet ==
  [st |-> "idle", ret |-> <<>>, at |-> 0, slot |-> NullCache,
   queried |-> FALSE, failed |-> FALSE]

NoResult == [kind |-> "none"]

\* No call of calculateWalletScore has been made yet.
NoHistory ==
  [ calls |-> 0, prev |-> [kind |-> "none"],
    started |-> [ranks |-> NullCache, meme |-> NullCache] ]

\* No request is running.
InitRequest ==
  /\ now = 0
  /\ ticks = 0
  /\ rget = [c \in Callers |-> IdleGet]
  /\ mget = [c \in Callers |-> IdleGet]
  /\ pc = "idle"
  /\ net = [s \in Sources |-> Response(s, "ok", 0)]
  /\ nFulfilled = 0
  /\ rejected = {}
  /\ data = [s \in Sources |-> NullData]
  /\ breakdown = [native |-> <<>>, platforms |-> <<>>]
  /\ totalPoints = 0
  /\ memePoints = 0
  /\ memeTokensSeen = <<>>
  /\ result = NoResult
  /\ history = NoHistory

InitState ==
  /\ ranksCache = NullCache
  /\ memeTokensCache = NullCache
  /\ InitRequest

Init ==
  /\ InitState
  /\ tierCall = [fn |-> "none"]

(***************************************************************************)
(* Registry Cache: getCachedRanks and getMemeTokenAddresses.  An           *)
(* invocation runs synchronously up to its await of the store query        *)
(* (...Invoke), and resumes when the query resolves (...QueryOk) or        *)
(* rejects (...QueryFail).                                                 *)
(***************************************************************************)
\* The ranks freshness test always failing: every lookup queries.
RanksNeverFresh == FALSE

\* The freshness test with <= for <.
RanksFreshInclusive ==
  ~ranksCache.isNull /\ now - ranksCache.timestamp <= RANKS_CACHE_TTL

\* ranksCache && Date.now() - ranksCache.timestamp < RANKS_CACHE_TTL
RanksFresh ==
  ~ranksCache.isNull /\ now - ranksCache.timestamp < RANKS_CACHE_TTL

\* memeTokensCache && Date.now() - memeTokensCache.timestamp < MEME_TOKENS_CACHE_TTL
MemeFresh ==
  ~memeTokensCache.isNull /\ now - memeTokensCache.timestamp < MEME_TOKENS_CACHE_TTL

\* getCachedRanks(), lines 57-63: the freshness test, then return or query.
RanksInvoke ==
  IF RanksFresh
  THEN [st |-> "returned", ret |-> ranksCache.ranks, at |-> now, slot |-> ranksCache,
        queried |-> FALSE, failed |-> FALSE]
  ELSE [st |-> "querying", ret |-> <<>>, at |-> now, slot |-> ranksCache,
        queried |-> TRUE, failed |-> FALSE]

\* getMemeTokenAddresses(), lines 27-33.
MemeInvoke ==
  IF MemeFresh
  THEN [st |-> "returned", ret |-> memeTokensCache.addresses, at |-> now,
        slot |-> memeTokensCache, queried |-> FALSE, failed |-> FALSE]
  ELSE [st |-> "querying", ret |-> {}, at |-> now, slot |-> memeTokensCache,
        queried |-> TRUE, failed |-> FALSE]

\* new Set(memeCoins.map(coin => coin.address.toLowerCase()))
MemeAddresses(memeCoins) ==
  {toLowerCase(memeCoins[i].address) : i \in 1..Len(memeCoins)}

\* Serving the previous payload, stale or not, when the query throws.
RanksStaleOnFailure(cache) == IF cache.isNull THEN <<>> ELSE cache.ranks

\* An empty set when the query throws.
MemeEmptyOnFailure(cache) == {}

\* The value getCachedRanks resolves to when its query throws (line 93).
RanksOnFailure(cache) == <<>>

\* The value getMemeTokenAddresses resolves to when its query throws (lines 41-48).
MemeOnFailure(cache) == FallbackMemeTokens

\* A refresh that replaces the payload of a populated slot and keeps its
\* timestamp.
RanksCacheMerged(cache, ranks, t) ==
  IF cache.isNull THEN [isNull |-> FALSE, ranks |-> ranks, timestamp |-> t]
  ELSE [cache EXCEPT !.ranks = ranks]

\* ranksCache = { ranks, timestamp: Date.now() } (line 89): the slot after the
\* assignment, whatever it held.
RanksCacheWrite(cache, ranks, t) == [isNull |-> FALSE, ranks |-> ranks, timestamp |-> t]

\* memeTokensCache = { addresses, timestamp: Date.now() } (line 36)
MemeCacheWrite(cache, addresses, t) ==
  [isNull |-> FALSE, addresses |-> addresses, timestamp |-> t]

\* Storing the fallback set, stamped now, when the query throws.
MemeFallbackCached(cache, t) ==
  [isNull |-> FALSE, addresses |-> FallbackMemeTokens, timestamp |-> t]

\* The ranks slot after the catch block of lines 91-94, which assigns nothing.
RanksCacheOnFailure(cache, t) == cache

\* The meme-token slot after the catch block of lines 38-49.
MemeCacheOnFailure(cache, t) == cache

\* Lines 80-90: the query resolved with the rows rawRanks.
RanksQueryOkWith(c, rawRanks) ==
  /\ rget[c].st = "querying"
  /\ LET ranks == ParseRanks(rawRanks, now)
     IN  /\ ranksCache' = RanksCacheWrite(ranksCache, ranks, now)
         /\ rget' = [rget EXCEPT ![c].st = "returned", ![c].ret = ranks]
  /\ UNCHANGED << now, ticks, memeTokensCache, mget, requestVars, tierCall, history >>

RanksQueryOk(c) == RanksQueryOkWith(c, StoreRanks)

\* Lines 91-94: the query threw.
RanksQueryFail(c) ==
  /\ rget[c].st = "querying"
  /\ rget' = [rget EXCEPT ![c].st = "returned", ![c].ret = RanksOnFailure(ranksCache),
                          ![c].failed = TRUE]
  /\ ranksCache' = RanksCacheOnFailure(ranksCache, now)
  /\ UNCHANGED << now, ticks, memeTokensCache, mget, requestVars, tierCall, history >>

\* Lines 34-37.
MemeQueryOk(c) ==
  /\ mget[c].st = "querying"
  /\ LET addresses == MemeAddresses(StoreMemeCoins)
     IN  /\ memeTokensCache' = MemeCacheWrite(memeTokensCache, addresses, now)
         /\ mget' = [mget EXCEPT ![c].st = "returned", ![c].ret = addresses]
  /\ UNCHANGED << now, ticks, ranksCache, rget, requestVars, tierCall, history >>

\* Lines 38-49.
MemeQueryFail(c) ==
  /\ mget[c].st = "querying"
  /\ mget' = [mget EXCEPT ![c].st = "returned",
                          ![c].ret = MemeOnFailure(memeTokensCache),
                          ![c].failed = TRUE]
  /\ memeTokensCache' = MemeCacheOnFailure(memeTokensCache, now)
  /\ UNCHANGED << now, ticks, ranksCache, rget, requestVars, tierCall, history >>

\* Another request looks up the ranks / the meme set, and takes the result.
\* A request awaits each lookup before its next one.
OtherGetRanks(c) ==
  /\ rget[c].st = "idle"
  /\ mget[c].st = "idle"
  /\ rget' = [rget EXCEPT ![c] = RanksInvoke]
  /\ UNCHANGED << now, ticks, ranksCache, memeTokensCache, mget, requestVars, tierCall, history >>

OtherGetMeme(c) ==
  /\ mget[c].st = "idle"
  /\ rget[c].st = "idle"
  /\ mget' = [mget EXCEPT ![c] = MemeInvoke]
  /\ UNCHANGED << now, ticks, ranksCache, memeTokensCache, rget, requestVars, tierCall, history >>

OtherTakesRanks(c) ==
  /\ rget[c].st = "returned"
  /\ rget' = [rget EXCEPT ![c] = IdleGet]
  /\ UNCHANGED << now, ticks, ranksCache, memeTokensCache, mget, requestVars, tierCall, history >>

OtherTakesMeme(c) ==
  /\ mget[c].st = "returned"
  /\ mget' = [mget EXCEPT ![c] = IdleGet]
  /\ UNCHANGED << now, ticks, ranksCache, memeTokensCache, rget, requestVars, tierCall, history >>

\* Time passes.
MaxTicks == 3

TickSteps == {1000, 59000, 240000}

Advance(steps) ==
  /\ ticks < MaxTicks
  /\ \E d \in steps : now' = now + d
  /\ ticks' = ticks + 1
  /\ UNCHANGED << ranksCache, memeTokensCache, rget, mget, requestVars, tierCall, history >>

Tick == Advance(TickSteps)

(***************************************************************************)
(* Score Aggregator: calculateWalletScore.                                 *)
(***************************************************************************)
RECURSIVE SumUsd(_)
\* .reduce((sum, token) => sum + (Number(token.usdValue) || 0), 0)
SumUsd(holdings) ==
  IF holdings = <<>> THEN 0
  ELSE SumUsd(SubSeq(holdings, 1, Len(holdings) - 1))
         + OrZero(ToNumber(holdings[Len(holdings)].usdValue))

RECURSIVE SumCounts(_)
\* .reduce((sum, col) => sum + (col.count || 0), 0)
SumCounts(cols) ==
  IF cols = <<>> THEN 0
  ELSE SumCounts(SubSeq(cols, 1, Len(cols) - 1)) + OrZero(cols[Len(cols)].count)

IsMeme(memeTokens, token) == toLowerCase(token.address) \in memeTokens

\* calculateTokenHoldingsPoints, lines 122-131, given the resolved meme set.
TokenHoldingsPoints(tokenHoldings, memeTokens) ==
  TokenHoldingsTier(SumUsd(SelectSeq(tokenHoldings, LAMBDA t : ~IsMeme(memeTokens, t))))

\* calculateMemeCoinsPoints, lines 137-146, given the resolved meme set.
MemeCoinsPoints(tokenHoldings, memeTokens) ==
  MemeCoinsTier(SumUsd(SelectSeq(tokenHoldings, LAMBDA t : IsMeme(memeTokens, t))))

\* const tokenHoldings = walletStats.tokenHoldings || []
TokenHoldingsOf(walletStats) == SeqField(walletStats, "tokenHoldings")

\* const allHoldings = [...tokenHoldings, { address: 0x0, symbol: 'ETH', usdValue: nativeEthUsd }]
AllHoldingsOf(walletStats) ==
  Append(TokenHoldingsOf(walletStats),
         [address |-> ZeroAddress,
          usdValue |-> OrZero(ToNumber(Field(walletStats, "balanceUsd")))])

\* byContract.find(c => c.contract_address === address)?.count || 0
RECURSIVE FindCount(_, _, _)
FindCount(byContract, address, i) ==
  IF i > Len(byContract) THEN 0
  ELSE IF byContract[i].contract_address = address THEN OrZero(byContract[i].count)
  ELSE FindCount(byContract, address, i + 1)

NativeEntry(value, points) == [value |-> value, points |-> points]

PlatformEntry(txCount, usdVolume, points) ==
  [tx_count |-> txCount, usd_volume |-> usdVolume, points |-> points]

\* The request starts: the 17 fetches are issued together (lines 418-436).
StartRequest(levels, primaryKinds, maxFaults) ==
  /\ pc = "idle"
  /\ \E l \in levels, primaryKind \in primaryKinds, F \in FaultSets(maxFaults) :
       \E k \in [F -> FaultKinds] : net' = Scenario(l, primaryKind, F, k)
  /\ pc' = "fetching"
  /\ UNCHANGED << cacheVars, nFulfilled, rejected, data, breakdown, totalPoints,
                  memePoints, memeTokensSeen, result, tierCall >>

Start(primaryKinds, maxFaults) ==
  /\ StartRequest(Levels, primaryKinds, maxFaults)
  /\ UNCHANGED history

\* The fetches settle one by one, in any order, whatever the request does
\* meanwhile.  One that does not reject fulfils with its Response.
WillFulfil == {s \in Sources : net[s].kind # "reject"}

FetchFulfils ==
  /\ pc # "idle"
  /\ nFulfilled < Cardinality(WillFulfil)
  /\ nFulfilled' = nFulfilled + 1
  /\ UNCHANGED << cacheVars, pc, net, rejected, data, breakdown, totalPoints,
                  memePoints, memeTokensSeen, result, tierCall, history >>

FetchRejects ==
  /\ pc # "idle"
  /\ \E s \in (Sources \ WillFulfil) \ rejected : rejected' = rejected \cup {s}
  /\ UNCHANGED << cacheVars, pc, net, nFulfilled, data, breakdown, totalPoints,
                  memePoints, memeTokensSeen, result, tierCall, history >>

Settled == nFulfilled + Cardinality(rejected)

\* Promise.all rejects as soon as one fetch has rejected; the catch block
\* logs and rethrows (lines 626-629).
PromiseAllRejects ==
  /\ pc = "fetching"
  /\ rejected # {}
  /\ pc' = "failed"
  /\ result' = [kind |-> "error", error |-> "fetch failed"]
  /\ UNCHANGED << cacheVars, net, nFulfilled, rejected, data, breakdown, totalPoints,
                  memePoints, memeTokensSeen, tierCall, history >>

\* Promise.all resolves once all 17 have fulfilled; lines 477-495 decode.
PromiseAllResolves ==
  /\ pc = "fetching"
  /\ nFulfilled = Cardinality(Sources)
  /\ LET d == Decode(net)
     IN  IF d.error # "none"
         THEN /\ pc' = "failed"
              /\ result' = [kind |-> "error", error |-> d.error]
              /\ data' = data
         ELSE /\ pc' = "decoded"
              /\ data' = d.data
              /\ result' = result
  /\ UNCHANGED << cacheVars, net, nFulfilled, rejected, breakdown, totalPoints,
                  memePoints, memeTokensSeen, tierCall, history >>

\* Lines 498-511: nft_collections, then calculateTokenHoldingsPoints up to
\* its await of getMemeTokenAddresses.
ScoreNft ==
  /\ pc = "decoded"
  /\ LET supportedNftCount == SumCounts(SeqField(data[Primary], "nftCollections"))
         nftPoints == calculateNftCollectionsPoints(supportedNftCount)
     IN  /\ breakdown' = [breakdown EXCEPT !.native =
               ("nft_collections" :> NativeEntry(supportedNftCount, nftPoints)) @@ @]
         /\ totalPoints' = totalPoints + nftPoints
  /\ mget' = [mget EXCEPT !["score"] = MemeInvoke]
  /\ pc' = "tokenPoints"
  /\ UNCHANGED << now, ticks, ranksCache, memeTokensCache, rget, net, nFulfilled,
                  rejected, data, memePoints, memeTokensSeen, result, tierCall, history >>

\* Lines 122-131 and 511-516: erc20_tokens, then calculateMemeCoinsPoints up
\* to its await of getMemeTokenAddresses.
ScoreTokens ==
  /\ pc = "tokenPoints"
  /\ mget["score"].st = "returned"
  /\ LET memeTokens == mget["score"].ret
         allHoldings == AllHoldingsOf(data[Primary])
         tokenPoints == TokenHoldingsPoints(allHoldings, memeTokens)
         totalTokenValue == SumUsd(allHoldings)
     IN  /\ breakdown' = [breakdown EXCEPT !.native =
               ("erc20_tokens" :> NativeEntry(totalTokenValue, tokenPoints)) @@ @]
         /\ totalPoints' = totalPoints + tokenPoints
         /\ memeTokensSeen' =
               Append(memeTokensSeen, [set |-> memeTokens, failed |-> mget["score"].failed])
  /\ mget' = [mget EXCEPT !["score"] = MemeInvoke]
  /\ pc' = "memePoints"
  /\ UNCHANGED << now, ticks, ranksCache, memeTokensCache, rget, net, nFulfilled,
                  rejected, data, memePoints, result, tierCall, history >>

\* Lines 137-146 and 516-517: memePoints, then the third lookup of the set.
ScoreMeme ==
  /\ pc = "memePoints"
  /\ mget["score"].st = "returned"
  /\ LET memeTokens == mget["score"].ret
     IN  /\ memePoints' = MemeCoinsPoints(TokenHoldingsOf(data[Primary]), memeTokens)
         /\ memeTokensSeen' =
               Append(memeTokensSeen, [set |-> memeTokens, failed |-> mget["score"].failed])
  /\ mget' = [mget EXCEPT !["score"] = MemeInvoke]
  /\ pc' = "memeCount"
  /\ UNCHANGED << now, ticks, ranksCache, memeTokensCache, rget, net, nFulfilled,
                  rejected, data, breakdown, totalPoints, result, tierCall, history >>

\* The platform entries of lines 530-611, each with the points added to
\* totalPoints for it.
PlatformBreakdown(d) ==
  LET bridgeInUsd == OrZero(Field(d["bridge"], "bridgedInUsd"))
      bridgeOutUsd == OrZero(Field(d["bridge"], "bridgedOutUsd"))
      gmCount == OrZero(Field(d["gm"], "total_count"))
      inkyPumpCreatedCount == OrZero(Field(d["inkyPumpCreated"], "total_count"))
      inkyPumpBuyUsd == ParseFloat(OrZeroString(SeqField(d["inkyPumpBuy"], "total_value")))
      inkyPumpSellUsd == ParseFloat(OrZeroString(SeqField(d["inkyPumpSell"], "total_value")))
      tydroSupplyUsd == OrZero(Field(d["tydro"], "currentSupplyUsd"))
      tydroBorrowUsd == OrZero(Field(d["tydro"], "currentBorrowUsd"))
      swapUsd == OrZero(Field(d["swap"], "totalUsd"))
      shelliesPlayedCount == OrZero(Field(d["shelliesPayToPlay"], "total_count"))
      shelliesStakedCount == OrZero(Field(d["shelliesStaking"], "total_count"))
      shelliesRafflesCount == OrZero(Field(d["shelliesRaffles"], "total_count"))
      znsDeployCount == OrZero(Field(d["zns"], "deploy_count"))
      znsSaidGmCount == OrZero(Field(d["zns"], "say_gm_count"))
      znsRegisterCount == OrZero(Field(d["zns"], "register_domain_count"))
      nft2meCollectionsCount == OrZero(Field(d["nft2me"], "collectionsCreated"))
      nft2meMintedCount == OrZero(Field(d["nft2me"], "nftsMinted"))
      byContract == SeqField(d["nftTrading"], "by_contract")
      squidCount == FindCount(byContract, NFT_CONTRACTS.squid, 1)
      netProtocolCount == FindCount(byContract, NFT_CONTRACTS.netProtocol, 1)
      mintiqueCount == FindCount(byContract, NFT_CONTRACTS.mintique, 1)
      marvkCardMinted == OrZero(Field(d["marvk"], "cardMintedCount"))
      marvkLockCount == OrZero(Field(d["marvk"], "lockTokenCount"))
      marvkVestCount == OrZero(Field(d["marvk"], "vestTokenCount"))
      nadoTotalDeposits == OrZero(Field(d["nado"], "totalDeposits"))
      nadoTotalVolume == OrZero(Field(d["nado"], "nadoVolumeUSD"))
      copinkSubaccounts == OrZero(Field(d["copink"], "subaccountsFound"))
      copinkVolume == OrZero(Field(d["copink"], "totalVolume"))
  IN  [ bridge_in |-> PlatformEntry(OrZero(Field(d["bridge"], "bridgedInCount")),
                        bridgeInUsd, calculateBridgeInPoints(bridgeInUsd)),
        bridge_out |-> PlatformEntry(OrZero(Field(d["bridge"], "bridgedOutCount")),
                        bridgeOutUsd, calculateBridgeOutPoints(bridgeOutUsd)),
        gm |-> PlatformEntry(gmCount, 0, calculateGmPoints(gmCount)),
        inkypump |-> PlatformEntry(
                        inkyPumpCreatedCount
                          + OrZero(Field(d["inkyPumpBuy"], "total_count"))
                          + OrZero(Field(d["inkyPumpSell"], "total_count")),
                        Plus(inkyPumpBuyUsd, inkyPumpSellUsd),
                        calculateInkyPumpPoints(inkyPumpCreatedCount, inkyPumpBuyUsd,
                                                inkyPumpSellUsd)),
        tydro |-> PlatformEntry(
                        OrZero(Field(d["tydro"], "depositCount"))
                          + OrZero(Field(d["tydro"], "borrowCount")),
                        tydroSupplyUsd + tydroBorrowUsd,
                        calculateTydroPoints(tydroSupplyUsd, tydroBorrowUsd)),
        swap |-> PlatformEntry(OrZero(Field(d["swap"], "txCount")), swapUsd,
                        calculateSwapVolumePoints(swapUsd)),
        shellies |-> PlatformEntry(
                        shelliesPlayedCount + shelliesStakedCount + shelliesRafflesCount, 0,
                        calculateShelliesPoints(shelliesPlayedCount, shelliesStakedCount,
                                                shelliesRafflesCount)),
        zns |-> PlatformEntry(OrZero(Field(d["zns"], "total_count")), 0,
                        calculateZnsPoints(znsDeployCount, znsSaidGmCount, znsRegisterCount)),
        nft2me |-> PlatformEntry(OrZero(Field(d["nft2me"], "totalTransactions")), 0,
                        calculateNft2mePoints(nft2meCollectionsCount, nft2meMintedCount)),
        nft_trading |-> PlatformEntry(OrZero(Field(d["nftTrading"], "total_count")), 0,
                        calculateNftTradingPoints(squidCount, netProtocolCount,
                                                  mintiqueCount)),
        marvk |-> PlatformEntry(OrZero(Field(d["marvk"], "totalTransactions")), 0,
                        calculateMarvkPoints(marvkCardMinted, marvkLockCount, marvkVestCount)),
        nado |-> PlatformEntry(OrZero(Field(d["nado"], "totalTransactions")),
                        nadoTotalVolume,
                        calculateNadoPoints(nadoTotalDeposits, nadoTotalVolume)),
        copink |-> PlatformEntry(copinkSubaccounts, copinkVolume,
                        calculateCopinkPoints(copinkSubaccounts, copinkVolume)) ]

\* The additions with bridgeOutPoints forgotten.
PlatformPointsWithoutBridgeOut(p) ==
  p.bridge_in.points + p.gm.points + p.inkypump.points
    + p.tydro.points + p.swap.points + p.shellies.points + p.zns.points
    + p.nft2me.points + p.nft_trading.points + p.marvk.points + p.nado.points
    + p.copink.points

\* The `totalPoints += ...` statements of lines 536-611, in order.
PlatformPointsAdded(p) ==
  (p.bridge_in.points + p.bridge_out.points) + p.gm.points + p.inkypump.points
    + p.tydro.points + p.swap.points + p.shellies.points + p.zns.points
    + p.nft2me.points + p.nft_trading.points + p.marvk.points + p.nado.points
    + p.copink.points

\* Lines 517-616: meme_coins, wallet_age, total_tx and every platform, then
\* the await of getCachedRanks.
ScorePlatforms ==
  /\ pc = "memeCount"
  /\ mget["score"].st = "returned"
  /\ LET memeTokens == mget["score"].ret
         walletStats == data[Primary]
         memeTokenCount ==
           Len(SelectSeq(TokenHoldingsOf(walletStats), LAMBDA t : IsMeme(memeTokens, t)))
         ageDays == OrZero(Field(walletStats, "ageDays"))
         agePoints == calculateWalletAgePoints(ageDays)
         totalTxns == OrZero(Field(walletStats, "totalTxns"))
         txPoints == calculateTotalTxPoints(totalTxns)
         platforms == PlatformBreakdown(data)
     IN  /\ breakdown' =
               [ native |-> ("meme_coins" :> NativeEntry(memeTokenCount, memePoints))
                              @@ ("wallet_age" :> NativeEntry(ageDays, agePoints))
                              @@ ("total_tx" :> NativeEntry(totalTxns, txPoints))
                              @@ breakdown.native,
                 platforms |-> platforms ]
         /\ totalPoints' = totalPoints + memePoints + agePoints + txPoints
                             + PlatformPointsAdded(platforms)
         /\ memeTokensSeen' =
               Append(memeTokensSeen, [set |-> memeTokens, failed |-> mget["score"].failed])
  /\ mget' = [mget EXCEPT !["score"] = IdleGet]
  /\ rget' = [rget EXCEPT !["score"] = RanksInvoke]
  /\ pc' = "rank"
  /\ UNCHANGED << now, ticks, ranksCache, memeTokensCache, net, nFulfilled,
                  rejected, data, memePoints, result, tierCall, history >>

\* Lines 616-625: the rank, and the response.  (wallet_address and
\* last_updated do not depend on the scoring and are left out.)  The record
\* of the getCachedRanks invocation is kept until the next request.
Return ==
  /\ pc = "rank"
  /\ rget["score"].st = "returned"
  /\ LET ranks == rget["score"].ret
         rank == getRankForPoints(ranks, totalPoints)
     IN  result' = [ kind |-> "response", total_points |-> totalPoints,
                     rank |-> ResponseRank(rank), breakdown |-> breakdown ]
  /\ pc' = "done"
  /\ UNCHANGED << cacheVars, net, nFulfilled, rejected, data, breakdown, totalPoints,
                  memePoints, memeTokensSeen, tierCall, history >>

\* The next request: the locals of calculateWalletScore start afresh; the
\* module-level caches stay.
ResetRequest ==
  /\ pc \in {"done", "failed"}
  /\ pc' = "idle"
  /\ net' = [s \in Sources |-> Response(s, "ok", 0)]
  /\ nFulfilled' = 0
  /\ rejected' = {}
  /\ data' = [s \in Sources |-> NullData]
  /\ breakdown' = [native |-> <<>>, platforms |-> <<>>]
  /\ totalPoints' = 0
  /\ memePoints' = 0
  /\ memeTokensSeen' = <<>>
  /\ result' = NoResult
  /\ rget' = [rget EXCEPT !["score"] = IdleGet]
  /\ UNCHANGED << now, ticks, ranksCache, memeTokensCache, mget, tierCall >>

NewRequest ==
  /\ ResetRequest
  /\ UNCHANGED history

\* Successive calls of calculateWalletScore, at most MaxCalls of them, each
\* remembered with the answers of its sources and the two cache slots as
\* they were when it started.  A call is for an empty wallet or for one of
\* the highest data level.
MaxCalls == 2

BeginCall ==
  /\ history.calls < MaxCalls
  /\ StartRequest({0, MaxLevel}, {"ok"}, 0)
  /\ history' = [history EXCEPT !.calls = @ + 1,
                                !.started = [ranks |-> ranksCache, meme |-> memeTokensCache]]

\* Time passes during a call, by a step shorter than the ranks TTL or by one
\* shorter than the meme-token TTL.  Nothing reads the clock before the
\* responses are decoded or once the call has returned, so a tick then is a
\* tick at the start of the scoring.
Elapse ==
  /\ pc \notin {"idle", "fetching", "done"}
  /\ Advance({59000, 240000})

NextCall ==
  /\ pc = "done"
  /\ ResetRequest
  /\ history' = [history EXCEPT !.prev = [ kind |-> "call", net |-> net, result |-> result,
                                           started |-> history.started ]]

(***************************************************************************)
(* Specifications.                                                         *)
(*   Spec         one request under every answer of the sources (at most   *)
(*                MaxFaults of the non-primary ones faulty) and a registry *)
(*                store that may fail; the clock stands still.             *)
(*   SpecRegistry requests whose sources all answer, one after another,    *)
(*                while time passes and the registry store may fail.       *)
(*   SpecCache    the two getters under concurrent callers, while time     *)
(*                passes and the registry store may fail.                  *)
(***************************************************************************)
Next ==
  \/ Start({"ok"} \cup FaultKinds, MaxFaults)
  \/ FetchFulfils
  \/ FetchRejects
  \/ PromiseAllRejects
  \/ PromiseAllResolves
  \/ ScoreNft
  \/ ScoreTokens
  \/ ScoreMeme
  \/ ScorePlatforms
  \/ Return
  \/ RanksQueryOk("score")
  \/ RanksQueryFail("score")
  \/ MemeQueryOk("score")
  \/ MemeQueryFail("score")

Spec == Init /\ [][Next]_vars

NextRegistry ==
  \/ Start({"ok"}, 0)
  \/ FetchFulfils
  \/ PromiseAllResolves
  \/ ScoreNft
  \/ ScoreTokens
  \/ ScoreMeme
  \/ ScorePlatforms
  \/ Return
  \/ NewRequest
  \/ RanksQueryOk("score")
  \/ RanksQueryFail("score")
  \/ MemeQueryOk("score")
  \/ MemeQueryFail("score")
  \/ Tick

SpecRegistry == Init /\ [][NextRegistry]_vars

NextCache ==
  \/ \E c \in Others : OtherGetRanks(c)
  \/ \E c \in Others : OtherGetMeme(c)
  \/ \E c \in Others : OtherTakesRanks(c)
  \/ \E c \in Others : OtherTakesMeme(c)
  \/ \E c \in Others : RanksQueryOk(c)
  \/ \E c \in Others : RanksQueryFail(c)
  \/ \E c \in Others : MemeQueryOk(c)
  \/ \E c \in Others : MemeQueryFail(c)
  \/ Tick

SpecCache == Init /\ [][NextCache]_vars

\* SpecRace: the two getters under concurrent callers whose refreshes overlap,
\* while the registry store may fail and time passes by a step shorter than
\* the ranks TTL or by one shorter than the meme-token TTL.
NextRace ==
  \/ \E c \in Others : OtherGetRanks(c)
  \/ \E c \in Others : OtherGetMeme(c)
  \/ \E c \in Others : OtherTakesRanks(c)
  \/ \E c \in Others : OtherTakesMeme(c)
  \/ \E c \in Others : RanksQueryOk(c)
  \/ \E c \in Others : RanksQueryFail(c)
  \/ \E c \in Others : MemeQueryOk(c)
  \/ \E c \in Others : MemeQueryFail(c)
  \/ Advance({59000, 240000})

SpecRace == Init /\ [][NextRace]_vars

\* SpecShape: getCachedRanks against a store whose ranks table holds, after a
\* well-formed first row, a row with numeric columns of any shape: numbers,
\* numeric strings, strings with a numeric prefix, and strings parseInt
\* cannot read.
MinPointsShapes ==
  { Num(100), Str(<<"1", "0", "0">>), Str(<<"a", "b", "c">>), Str(<<>>) }

MaxPointsShapes ==
  { NullField, Num(999), Str(<<"9", "9", "9">>), Str(<<"9", "9", "p", "t">>),
    Str(<<"n", "/", "a">>) }

RankTables ==
  { << [id |-> 1, name |-> "Bronze", color |-> "brown", logo_url |-> "bronze.png",
        min_points |-> Num(0), max_points |-> Num(99)],
       [id |-> 2, name |-> "Silver", color |-> "grey", logo_url |-> "silver.png",
        min_points |-> lo, max_points |-> hi] >> :
      lo \in MinPointsShapes, hi \in MaxPointsShapes }

NextShape ==
  \/ OtherGetRanks("other1")
  \/ OtherTakesRanks("other1")
  \/ \E rawRanks \in RankTables : RanksQueryOkWith("other1", rawRanks)
  \/ RanksQueryFail("other1")
  \/ Tick

SpecShape == Init /\ [][NextShape]_vars

\* SpecCalls: calls of calculateWalletScore one after another, each compared
\* with the one before it, while time passes and the ranks query may fail.
NextCalls ==
  \/ BeginCall
  \/ FetchFulfils
  \/ PromiseAllResolves
  \/ ScoreNft
  \/ ScoreTokens
  \/ ScoreMeme
  \/ ScorePlatforms
  \/ Return
  \/ NextCall
  \/ RanksQueryOk("score")
  \/ RanksQueryFail("score")
  \/ MemeQueryOk("score")
  \/ Elapse

\* The service has just started (both slots null), or earlier requests have
\* filled a slot (lines 89 and 36).
InitCalls ==
  /\ ranksCache \in
       { NullCache, [isNull |-> FALSE, ranks |-> ParseRanks(StoreRanks, 0), timestamp |-> 0] }
  /\ memeTokensCache \in
       { NullCache,
         [isNull |-> FALSE, addresses |-> MemeAddresses(StoreMemeCoins), timestamp |-> 0] }
  /\ InitRequest
  /\ tierCall = [fn |-> "none"]

SpecCalls == InitCalls /\ [][NextCalls]_vars

(***************************************************************************)
(* SpecTier: the pure functions applied directly to bounded inputs: every  *)
(* threshold table to one input, and getRankForPoints to a rank list       *)
(* sorted by ascending min_points and a points value.                      *)
(***************************************************************************)
Resolvers ==
  { "calculateNftCollectionsPoints", "TokenHoldingsTier", "MemeCoinsTier",
    "calculateWalletAgePoints", "calculateTotalTxPoints", "getBridgeVolumeTierPoints",
    "calculateGmPoints", "InkyPumpCreatePoints", "InkyPumpVolumePoints",
    "getTydroSupplyTierPoints", "getTydroBorrowTierPoints", "calculateSwapVolumePoints",
    "ShelliesPlayPoints", "ShelliesStakePoints", "ShelliesRafflePoints",
    "ZnsRegisterPoints", "ZnsDeployPoints", "ZnsGmPoints", "MarvkCardPoints",
    "MarvkLockPoints", "MarvkVestPoints", "NadoDepositPoints", "NadoVolumePoints",
    "CopinkVolumePoints", "CopinkSubaccountPoints", "Nft2meCollectionPoints",
    "Nft2meMintPoints", "NftPlatformPoints", "NftTradePoints" }

Resolve(fn, x) ==
  CASE fn = "calculateNftCollectionsPoints" -> calculateNftCollectionsPoints(x)
    [] fn = "TokenHoldingsTier" -> TokenHoldingsTier(x)
    [] fn = "MemeCoinsTier" -> MemeCoinsTier(x)
    [] fn = "calculateWalletAgePoints" -> calculateWalletAgePoints(x)
    [] fn = "calculateTotalTxPoints" -> calculateTotalTxPoints(x)
    [] fn = "getBridgeVolumeTierPoints" -> getBridgeVolumeTierPoints(x)
    [] fn = "calculateGmPoints" -> calculateGmPoints(x)
    [] fn = "InkyPumpCreatePoints" -> InkyPumpCreatePoints(x)
    [] fn = "InkyPumpVolumePoints" -> InkyPumpVolumePoints(x)
    [] fn = "getTydroSupplyTierPoints" -> getTydroSupplyTierPoints(x)
    [] fn = "getTydroBorrowTierPoints" -> getTydroBorrowTierPoints(x)
    [] fn = "calculateSwapVolumePoints" -> calculateSwapVolumePoints(x)
    [] fn = "ShelliesPlayPoints" -> ShelliesPlayPoints(x)
    [] fn = "ShelliesStakePoints" -> ShelliesStakePoints(x)
    [] fn = "ShelliesRafflePoints" -> ShelliesRafflePoints(x)
    [] fn = "ZnsRegisterPoints" -> ZnsRegisterPoints(x)
    [] fn = "ZnsDeployPoints" -> ZnsDeployPoints(x)
    [] fn = "ZnsGmPoints" -> ZnsGmPoints(x)
    [] fn = "MarvkCardPoints" -> MarvkCardPoints(x)
    [] fn = "MarvkLockPoints" -> MarvkLockPoints(x)
    [] fn = "MarvkVestPoints" -> MarvkVestPoints(x)
    [] fn = "NadoDepositPoints" -> NadoDepositPoints(x)
    [] fn = "NadoVolumePoints" -> NadoVolumePoints(x)
    [] fn = "CopinkVolumePoints" -> CopinkVolumePoints(x)
    [] fn = "CopinkSubaccountPoints" -> CopinkSubaccountPoints(x)
    [] fn = "Nft2meCollectionPoints" -> Nft2meCollectionPoints(x)
    [] fn = "Nft2meMintPoints" -> Nft2meMintPoints(x)
    [] fn = "NftPlatformPoints" -> NftPlatformPoints(x, x, x)
    [] fn = "NftTradePoints" -> NftTradePoints(x)

\* Inputs: NaN, every whole number up to MaxTierInput either side of 0, and
\* some larger magnitudes.
MaxTierInput == 3

TierInputs ==
  {NaN} \cup (-MaxTierInput..MaxTierInput) \cup {30, 400, 1500, 100000, 25000000}

ApplyResolver ==
  /\ tierCall.fn \in Resolvers
  /\ ~tierCall.applied
  /\ tierCall' = [tierCall EXCEPT !.applied = TRUE, !.points = Resolve(tierCall.fn, tierCall.x)]
  /\ UNCHANGED << cacheVars, requestVars, history >>

\* Rank lists: at most MaxRanks ranks with bounds up to MaxRankBound, in
\* ascending order of min_points (the ORDER BY of the query).
MaxRanks == 3

MaxRankBound == 2

RankBounds ==
  {b \in [min_points : 0..MaxRankBound, max_points : {Null} \cup 0..MaxRankBound] : TRUE}

RankOf(i, b) ==
  [ id |-> i, name |-> <<"rank", i>>, color |-> <<"color", i>>,
    logo_url |-> <<"logo", i>>, min_points |-> b.min_points,
    max_points |-> b.max_points, created_at |-> 0 ]

\* [min_points, max_points] for each rank of a list, in ascending min_points.
Ascending(bs) ==
  \A i \in 1..(Len(bs) - 1) : bs[i].min_points <= bs[i + 1].min_points

ApplyRank ==
  /\ tierCall.fn = "getRankForPoints"
  /\ ~tierCall.applied
  /\ LET rank == getRankForPoints(tierCall.ranks, tierCall.x)
     IN  tierCall' = [tierCall EXCEPT !.applied = TRUE, !.rank = rank,
                                      !.response = ResponseRank(rank)]
  /\ UNCHANGED << cacheVars, requestVars, history >>

InitTier ==
  /\ InitState
  /\ \/ \E fn \in Resolvers, x \in TierInputs :
          tierCall = [fn |-> fn, x |-> x, applied |-> FALSE, points |-> 0]
     \/ \E n \in 0..MaxRanks, points \in -1..(MaxRankBound + 1) :
          \E bs \in [1..n -> RankBounds] :
            /\ Ascending(bs)
            /\ tierCall = [ fn |-> "getRankForPoints",
                            ranks |-> [i \in 1..n |-> RankOf(i, bs[i])],
                            x |-> points, applied |-> FALSE,
                            rank |-> NoRank, response |-> NoRank ]

NextTier == ApplyResolver \/ ApplyRank

SpecTier == InitTier /\ [][NextTier]_vars

(***************************************************************************)
(* Properties.                                                             *)
(***************************************************************************)
RECURSIVE SumPoints(_)
\* The sum of the points fields of the entries of one breakdown map.
SumPoints(entries) ==
  IF DOMAIN entries = {} THEN 0
  ELSE LET k == CHOOSE key \in DOMAIN entries : TRUE
       IN  entries[k].points
             + SumPoints([key \in DOMAIN entries \ {k} |-> entries[key]])

\* The platform entries computed from one source alone (lines 530-611).
EntriesFedOnlyBy(s) ==
  CASE s = "bridge" -> {"bridge_in", "bridge_out"}
    [] s = "swap" -> {"swap"}
    [] s = "tydro" -> {"tydro"}
    [] s = "gm" -> {"gm"}
    [] s = "zns" -> {"zns"}
    [] s = "nft2me" -> {"nft2me"}
    [] s = "nftTrading" -> {"nft_trading"}
    [] s = "marvk" -> {"marvk"}
    [] s = "nado" -> {"nado"}
    [] s = "copink" -> {"copink"}
    [] OTHER -> {}

Ended == pc \in {"done", "failed"}

\* C1: when a non-primary source answers with a non-success HTTP status and
\* the primary source succeeds, the request returns a full response, and
\* every breakdown entry fed only by that source has tx_count, usd_volume
\* and points equal to 0.
C1_DegradedSourceScoresZero ==
  \A s \in Sources \ {Primary} :
    (Ended /\ net[Primary].kind = "ok" /\ net[s].kind = "http500") =>
      /\ pc = "done"
      /\ result.kind = "response"
      /\ \A e \in EntriesFedOnlyBy(s) :
           /\ result.breakdown.platforms[e].tx_count = 0
           /\ result.breakdown.platforms[e].usd_volume = 0
           /\ result.breakdown.platforms[e].points = 0

\* C2: when the fetch of one non-primary source rejects, or its body cannot
\* be decoded as JSON, and the primary source succeeds, the request still
\* returns a complete response and surfaces no error.
C2_TransportFailureAbsorbed ==
  \A s \in Sources \ {Primary} :
    (Ended /\ net[Primary].kind = "ok" /\ net[s].kind \in {"reject", "badjson"}) =>
      /\ pc = "done"
      /\ result.kind = "response"

\* C3: when the primary wallet-stats source answers with a non-success
\* status or no usable body, the request ends with an error and never
\* returns a response or builds a partial one, whatever the other sources
\* answer.
C3_PrimaryFailureIsFatal ==
  (pc # "idle" /\ net[Primary].kind # "ok") =>
    /\ pc \in {"fetching", "failed"}
    /\ result.kind # "response"
    /\ breakdown = [native |-> <<>>, platforms |-> <<>>]
    /\ totalPoints = 0
    /\ (pc = "failed" => result.kind = "error")
    /\ (pc = "fetching" /\ Settled = Cardinality(Sources) =>
          ENABLED (PromiseAllRejects \/ PromiseAllResolves))

\* C3 witness: the request has failed on the wallet stats while another
\* source was faulty too.
C3_Witness ==
  /\ pc = "failed"
  /\ net[Primary].kind = "http500"
  /\ result = [kind |-> "error", error |-> "Failed to fetch wallet stats"]
  /\ \E s \in Sources \ {Primary} : net[s].kind = "nullbody"

\* C4: fan-in barrier: the request neither starts aggregating nor completes,
\* with a response or with an error, before all 17 fetches have settled.
C4_FanInBarrier ==
  pc \notin {"idle", "fetching"} => Settled = Cardinality(Sources)

\* C10: in every response, total_points is the sum of the points of all
\* entries of breakdown.native and breakdown.platforms, with no cap.
C10_TotalIsSumOfBreakdown ==
  pc = "done" =>
    /\ result.kind = "response"
    /\ result.total_points =
         SumPoints(result.breakdown.native) + SumPoints(result.breakdown.platforms)

\* C10 witness: a response with a degraded source whose total exceeds the
\* largest maximum of a single category (2500).
C10_Witness ==
  /\ pc = "done"
  /\ \E s \in Sources : net[s].kind = "http500"
  /\ result.total_points > 2500

\* C5: a get() issued while now - fetched_at < TTL (60 s for the ranks,
\* 300 s for the meme tokens) returns the cached payload and issues no
\* store query; one issued when now - fetched_at >= TTL, or when nothing is
\* cached, issues a store query.
C5_CacheTtl ==
  \A c \in Callers :
    /\ rget[c].st # "idle" =>
         LET f == rget[c]
             fresh == ~f.slot.isNull /\ f.at - f.slot.timestamp < 60000
         IN  /\ fresh => (f.st = "returned" /\ ~f.queried /\ f.ret = f.slot.ranks)
             /\ ~fresh => f.queried
    /\ mget[c].st # "idle" =>
         LET f == mget[c]
             fresh == ~f.slot.isNull /\ f.at - f.slot.timestamp < 300000
         IN  /\ fresh => (f.st = "returned" /\ ~f.queried /\ f.ret = f.slot.addresses)
             /\ ~fresh => f.queried

\* C5 witness: of two rank lookups against the same cached payload, the one
\* issued 59 s after the refresh reused it and the one issued 61 s after
\* queried the store.
C5_Witness ==
  \E c1, c2 \in Callers :
    /\ rget[c1].st = "returned" /\ ~rget[c1].queried /\ ~rget[c1].slot.isNull
    /\ rget[c1].at - rget[c1].slot.timestamp = 59000
    /\ rget[c2].queried /\ ~rget[c2].slot.isNull
    /\ rget[c2].slot = rget[c1].slot
    /\ rget[c2].at - rget[c2].slot.timestamp = 61000

\* C6: when the rank refresh query fails, getCachedRanks returns an empty
\* list (no fallback list, no stale payload), and the request returns a
\* response with rank = null and no error.
C6_RankRefreshFailure ==
  /\ pc # "failed"
  /\ rget["score"].failed => (rget["score"].st = "returned" /\ rget["score"].ret = <<>>)
  /\ (pc = "done" /\ rget["score"].failed) =>
       (result.kind = "response" /\ result.rank = NoRank)

\* C6 witness: a response with rank = null after a failed refresh, although
\* a stale payload was cached and the total lies in the range of a rank.
C6_Witness ==
  /\ pc = "done"
  /\ rget["score"].failed
  /\ ~rget["score"].slot.isNull
  /\ result.total_points >= 1000
  /\ result.rank = NoRank

FallbackIds == {"ANITA", "CAT", "PURPLE", "ANDRU", "KRAK", "BERT"}

InFallback(t) == t.address.id \in FallbackIds

\* C7: when the meme-token refresh fails, getMemeTokenAddresses returns the
\* built-in set of six lowercase addresses, never an empty set, the request
\* does not fail, and the classification of that lookup uses this set.
C7_MemeRefreshFallback ==
  /\ pc # "failed"
  /\ \A c \in Callers : mget[c].failed =>
       (mget[c].st = "returned" /\ mget[c].ret = FallbackMemeTokens)
  /\ \A i \in DOMAIN memeTokensSeen : memeTokensSeen[i].failed =>
       /\ Cardinality(memeTokensSeen[i].set) = 6
       /\ {a.id : a \in memeTokensSeen[i].set} = FallbackIds
       /\ \A a \in memeTokensSeen[i].set : a.cs = "lower"
  /\ (Len(memeTokensSeen) >= 1 /\ memeTokensSeen[1].failed) =>
       breakdown.native["erc20_tokens"].points =
         TokenHoldingsTier(SumUsd(SelectSeq(AllHoldingsOf(data[Primary]),
                                            LAMBDA t : ~InFallback(t))))
  /\ (Len(memeTokensSeen) >= 2 /\ memeTokensSeen[2].failed) =>
       memePoints =
         MemeCoinsTier(SumUsd(SelectSeq(TokenHoldingsOf(data[Primary]), InFallback)))
  /\ (Len(memeTokensSeen) >= 3 /\ memeTokensSeen[3].failed) =>
       breakdown.native["meme_coins"].value =
         Len(SelectSeq(TokenHoldingsOf(data[Primary]), InFallback))

\* C7 witness: a response whose three lookups all fell back, for a wallet
\* that holds tokens of the built-in set.
C7_Witness ==
  /\ pc = "done"
  /\ \A i \in 1..3 : memeTokensSeen[i].failed
  /\ result.breakdown.native["meme_coins"].value = 2
  /\ result.breakdown.native["meme_coins"].points > 0

\* C8: every resolver gives 0 points for an input that is NaN, negative,
\* zero or below the lowest threshold of its table (the lowest threshold is
\* 1 on whole numbers).
C8_LowInputsResolveToZero ==
  (tierCall.fn \in Resolvers /\ tierCall.applied
     /\ (IsNaN(tierCall.x) \/ tierCall.x <= 0)) =>
    tierCall.points = 0

\* The ranks of a list whose range [min_points, max_points or +infinity]
\* contains p.
Containing(ranks, p) ==
  {i \in 1..Len(ranks) :
     /\ ranks[i].min_points <= p
     /\ (ranks[i].max_points = Null \/ p <= ranks[i].max_points)}

\* C9: on a rank list sorted by ascending min_points, getRankForPoints
\* returns the first rank in list order whose range contains the points,
\* and null exactly when no rank does; null becomes rank = null in the
\* response.
C9_RankResolution ==
  (tierCall.fn = "getRankForPoints" /\ tierCall.applied) =>
    LET m == Containing(tierCall.ranks, tierCall.x)
    IN  IF m = {}
        THEN tierCall.rank = NoRank /\ tierCall.response = NoRank
        ELSE LET first == CHOOSE i \in m : \A j \in m : i <= j
             IN  /\ tierCall.rank = tierCall.ranks[first]
                 /\ tierCall.response =
                      [ name |-> tierCall.ranks[first].name,
                        color |-> tierCall.ranks[first].color,
                        logo_url |-> tierCall.ranks[first].logo_url ]

\* C9 witness: several ranks contain the points, the first of the list does
\* not, and the resolver has answered.
C9_Witness ==
  /\ tierCall.fn = "getRankForPoints"
  /\ tierCall.applied
  /\ Cardinality(Containing(tierCall.ranks, tierCall.x)) >= 2
  /\ 1 \notin Containing(tierCall.ranks, tierCall.x)
  /\ tierCall.rank # NoRank

\* Both cache slots of `started` are populated and still unexpired now; time
\* only advances, so they have been so, unrefreshed, ever since.
CachesLiveSince(started) ==
  /\ ~started.ranks.isNull
  /\ ~started.meme.isNull
  /\ now - started.ranks.timestamp < RANKS_CACHE_TTL
  /\ now - started.meme.timestamp < MEME_TOKENS_CACHE_TTL

\* The call that has just returned got the same answers from its sources as
\* the call before it, with both caches populated and unexpired from the
\* start of that call until now.
SameDataAndLiveCaches ==
  /\ pc = "done"
  /\ history.prev.kind = "call"
  /\ net = history.prev.net
  /\ CachesLiveSince(history.prev.started)

\* C11: idempotence: two calls with identical upstream source data and both
\* registry caches populated and unexpired throughout both calls return
\* responses equal in total_points, rank and breakdown.
C11_Idempotence ==
  SameDataAndLiveCaches =>
    /\ result.kind = "response"
    /\ history.prev.result.kind = "response"
    /\ result.total_points = history.prev.result.total_points
    /\ result.rank = history.prev.result.rank
    /\ result.breakdown = history.prev.result.breakdown

\* C11 witness: two such calls, after time has passed, for a wallet that
\* holds meme tokens and reaches a rank.
C11_Witness ==
  /\ SameDataAndLiveCaches
  /\ now > history.prev.started.ranks.timestamp
  /\ result.rank # NoRank
  /\ result.breakdown.native["meme_coins"].value > 0

\* C12: every bound of the cached rank list is an integer, or a null
\* max_points: a non-numeric string of the store is coerced or its row
\* dropped, never cached as NaN.
C12_CachedBoundsAreIntegers ==
  ~ranksCache.isNull =>
    \A i \in 1..Len(ranksCache.ranks) :
      /\ ~IsNaN(ranksCache.ranks[i].min_points)
      /\ ~IsNaN(ranksCache.ranks[i].max_points)

RECURSIVE FindCountAnyCase(_, _, _)
\* The count of the first by_contract entry whose contract_address is
\* `address` in any letter case.
FindCountAnyCase(byContract, address, i) ==
  IF i > Len(byContract) THEN 0
  ELSE IF toLowerCase(byContract[i].contract_address) = toLowerCase(address)
       THEN OrZero(byContract[i].count)
  ELSE FindCountAnyCase(byContract, address, i + 1)

\* C13: contract addresses are compared with both sides lowercased: in every
\* response the nft_trading points count the by_contract entries of the
\* three marketplaces whatever the letter case of their contract_address.
C13_NftContractsMatchedInAnyCase ==
  (pc = "done" /\ ~data["nftTrading"].isNull) =>
    LET byContract == SeqField(data["nftTrading"], "by_contract")
    IN  result.breakdown.platforms.nft_trading.points =
          calculateNftTradingPoints(
            FindCountAnyCase(byContract, NFT_CONTRACTS.squid, 1),
            FindCountAnyCase(byContract, NFT_CONTRACTS.netProtocol, 1),
            FindCountAnyCase(byContract, NFT_CONTRACTS.mintique, 1))

\* The value one successful ranks refresh at time t writes and returns: the
\* parsed rows, each stamped t.
ParsedStoreRanks == ParseRanks(StoreRanks, 0)

RanksRefreshedAt(t) ==
  [i \in 1..Len(ParsedStoreRanks) |-> [ParsedStoreRanks[i] EXCEPT !.created_at = t]]

\* c's getCachedRanks() has returned the list its own query produced.
RanksRefreshedBy(c) ==
  rget[c].st = "returned" /\ rget[c].queried /\ ~rget[c].failed

MemeRefreshedBy(c) ==
  mget[c].st = "returned" /\ mget[c].queried /\ ~mget[c].failed

\* The slot a lookup found at time t is absent or expired.
StaleAt(slot, t, ttl) == slot.isNull \/ t - slot.timestamp >= ttl

\* C14: under every interleaving of concurrent lookups, each cache slot is
\* empty or one complete {payload, timestamp} written by one successful
\* query, the latest one (last write wins); a lookup that finds the slot
\* absent or expired issues its own query, whatever refresh of another
\* caller is in flight, instead of waiting for it; and every lookup returns
\* a complete payload.
C14_AtomicSlotLastWriteWins ==
  /\ ~ranksCache.isNull =>
       /\ ranksCache.timestamp <= now
       /\ ranksCache.ranks = RanksRefreshedAt(ranksCache.timestamp)
  /\ ~memeTokensCache.isNull =>
       /\ memeTokensCache.timestamp <= now
       /\ memeTokensCache.addresses = MemeAddresses(StoreMemeCoins)
  /\ \A c \in Others :
       /\ RanksRefreshedBy(c) =>
            /\ ~ranksCache.isNull
            /\ Len(rget[c].ret) = Len(StoreRanks)
            /\ LET t == rget[c].ret[1].created_at
               IN  /\ rget[c].at <= t
                   /\ t <= ranksCache.timestamp
                   /\ rget[c].ret = RanksRefreshedAt(t)
       /\ MemeRefreshedBy(c) =>
            /\ ~memeTokensCache.isNull
            /\ mget[c].at <= memeTokensCache.timestamp
            /\ mget[c].ret = memeTokensCache.addresses
       /\ (rget[c].st = "returned" /\ ~rget[c].queried) =>
            /\ ~rget[c].slot.isNull
            /\ rget[c].ret = rget[c].slot.ranks
       /\ (mget[c].st = "returned" /\ ~mget[c].queried) =>
            /\ ~mget[c].slot.isNull
            /\ mget[c].ret = mget[c].slot.addresses
       /\ (rget[c].st # "idle" /\ StaleAt(rget[c].slot, rget[c].at, RANKS_CACHE_TTL)) =>
            rget[c].queried
       /\ (mget[c].st # "idle" /\ StaleAt(mget[c].slot, mget[c].at, MEME_TOKENS_CACHE_TTL)) =>
            mget[c].queried

\* C14 witness: two ranks refreshes in flight at once (both callers found
\* the same slot) have completed at different times, and the slot holds the
\* later one's list.
C14_Witness ==
  \E c1, c2 \in Others :
    /\ c1 # c2
    /\ RanksRefreshedBy(c1)
    /\ RanksRefreshedBy(c2)
    /\ rget[c1].slot = rget[c2].slot
    /\ rget[c1].ret # rget[c2].ret
    /\ ranksCache.ranks = rget[c2].ret
    /\ ranksCache.timestamp > rget[c1].ret[1].created_at

\* A step in which a refresh of caller c fails.
RanksRefreshFails(c) == rget[c].st = "querying" /\ rget'[c].failed

MemeRefreshFails(c) == mget[c].st = "querying" /\ mget'[c].failed

\* Neither degraded value is in a slot, and a slot that a failed refresh
\* found absent or expired and that is still as it was is not served: the
\* next lookup queries again.
DegradedNeverCached ==
  /\ ~ranksCache.isNull => ranksCache.ranks # <<>>
  /\ ~memeTokensCache.isNull => memeTokensCache.addresses # FallbackMemeTokens
  /\ \A c \in Callers :
       /\ (rget[c].failed /\ ranksCache = rget[c].slot) => ~RanksFresh
       /\ (mget[c].failed /\ memeTokensCache = mget[c].slot) => ~MemeFresh

\* C15: a failed refresh leaves the cache slot (payload and timestamp)
\* unchanged; the empty rank list and the fallback set are never stored, so
\* the next lookup after a failure queries the store again.
C15_FailedRefreshKeepsSlot ==
  /\ []DegradedNeverCached
  /\ [][ \A c \in Callers :
           /\ RanksRefreshFails(c) => ranksCache' = ranksCache
           /\ MemeRefreshFails(c) => memeTokensCache' = memeTokensCache ]_vars

\* C15 witness: a meme-token refresh of the request failed on an expired
\* slot, the slot is still the expired one, and the request's next lookup
\* is querying the store again.
C15_Witness ==
  /\ pc \in {"memePoints", "memeCount"}
  /\ memeTokensSeen[Len(memeTokensSeen)].failed
  /\ ~memeTokensCache.isNull
  /\ mget["score"].st = "querying"
  /\ mget["score"].slot = memeTokensCache

\* The holding's usdValue went into the total of calculateTokenHoldingsPoints
\* (first lookup of the meme set) / of calculateMemeCoinsPoints (second).
CountedAsPlain(t) == ~IsMeme(memeTokensSeen[1].set, t)

CountedAsMeme(t) == IsMeme(memeTokensSeen[2].set, t)

\* C16: within one request every token holding of the wallet is counted in
\* exactly one of the plain-token total and the meme-token total, even when
\* the meme-token cache expires or its refresh fails between the lookups.
C16_ConsistentClassification ==
  Len(memeTokensSeen) >= 2 =>
    LET tokenHoldings == TokenHoldingsOf(data[Primary])
    IN  \A i \in 1..Len(tokenHoldings) :
          CountedAsPlain(tokenHoldings[i]) # CountedAsMeme(tokenHoldings[i])

====
